---------------------------- MODULE Spec2Model ----------------------------
(***************************************************************************)
(* A model of GlassnodeClient (src/glassnode_client.py): the timestamp     *)
(* normalizer, the parameter encoder, the bulk timerange validator, the    *)
(* request executor and the two response normalizers, driven as the        *)
(* methods of one constructed client.                                      *)
(*                                                                         *)
(* Python values are records of one shape (PyVal) so that values of        *)
(* different Python types can be compared:                                 *)
(*   t  the Python type: "none", "int", "str", "float", "datetime",        *)
(*      "Timestamp" (pandas), "list", "dict"                               *)
(*   i  the integer of an int; the epoch seconds of a datetime/Timestamp   *)
(*   s  the characters of a str, one single-character string each          *)
(*   l  the elements of a list                                             *)
(*   d  the items of a dict, <<key, value>> pairs in insertion order       *)
(***************************************************************************)
EXTENDS Integers, Sequences, FiniteSets, TLC

\* ------------------------------------------------------------ Python values

PyNone == [t |-> "none", i |-> 0, s |-> <<>>, l |-> <<>>, d |-> <<>>]

PyInt(n) == [t |-> "int", i |-> n, s |-> <<>>, l |-> <<>>, d |-> <<>>]

PyStr(chars) == [t |-> "str", i |-> 0, s |-> chars, l |-> <<>>, d |-> <<>>]

\* A float; only 0.0 / non-zero is kept (i = 0 is 0.0), it is never computed with.
PyFloat(n) == [t |-> "float", i |-> n, s |-> <<>>, l |-> <<>>, d |-> <<>>]

\* A datetime.datetime object whose timestamp() is n.
PyDatetime(n) == [t |-> "datetime", i |-> n, s |-> <<>>, l |-> <<>>, d |-> <<>>]

PyList(elems) == [t |-> "list", i |-> 0, s |-> <<>>, l |-> elems, d |-> <<>>]

PyDict(items) == [t |-> "dict", i |-> 0, s |-> <<>>, l |-> <<>>, d |-> items]

\* Python truthiness, as used by `if since`, `not until`, `if assets`, `max_days and`.
Truthy(v) ==
    CASE v.t = "none" -> FALSE
      [] v.t = "int" -> v.i # 0
      [] v.t = "float" -> v.i # 0
      [] v.t = "str" -> Len(v.s) > 0
      [] v.t = "list" -> Len(v.l) > 0
      [] v.t = "dict" -> Len(v.d) > 0
      [] OTHER -> TRUE

\* dict operations on the <<key, value>> item sequence of a dict (keys are
\* unique): the position of a key, 0 when it is absent
DictIndex(items, key) ==
    IF \E k \in 1..Len(items) : items[k][1] = key
    THEN CHOOSE k \in 1..Len(items) : items[k][1] = key
    ELSE 0

DictHas(items, key) == \E k \in 1..Len(items) : items[k][1] = key

\* dict.get(key) with default None; d[key] where the key is known to be present
DictGet(items, key) ==
    IF DictHas(items, key) THEN items[DictIndex(items, key)][2] ELSE PyNone

\* d[key] = value: an existing key keeps its position, a new key goes last
DictSet(items, key, value) ==
    IF DictHas(items, key)
    THEN [k \in 1..Len(items) |-> IF items[k][1] = key THEN <<key, value>> ELSE items[k]]
    ELSE Append(items, <<key, value>>)

\* d.update(other): the keys d has keep their position and take the value
\* of other, the keys it lacks follow in the order of other
DictUpdate(items, other) ==
    [k \in 1..Len(items) |->
        IF DictHas(other, items[k][1])
        THEN <<items[k][1], DictGet(other, items[k][1])>>
        ELSE items[k]]
    \o SelectSeq(other, LAMBDA item : ~DictHas(items, item[1]))

DictKeys(items) == [k \in 1..Len(items) |-> items[k][1]]

\* ------------------------------------------------------------ exceptions

\* What a method produces: a raised exception, a returned Python value, or a
\* returned pandas DataFrame (index: the values of the index column when
\* `indexed`; rows: the remaining cells of each row, keyed by column).
NoFrame == [indexed |-> FALSE, index |-> <<>>, rows |-> <<>>]

Raise(exc, msg, args) ==
    [kind |-> "raise", exc |-> exc, msg |-> msg, args |-> args,
     val |-> PyNone, df |-> NoFrame]

Return(v) ==
    [kind |-> "value", exc |-> "", msg |-> "", args |-> <<>>,
     val |-> v, df |-> NoFrame]

ReturnFrame(frame) ==
    [kind |-> "DataFrame", exc |-> "", msg |-> "", args |-> <<>>,
     val |-> PyNone, df |-> frame]

NoOutcome ==
    [kind |-> "none", exc |-> "", msg |-> "", args |-> <<>>,
     val |-> PyNone, df |-> NoFrame]

Raised(o) == o.kind = "raise"

\* ------------------------------------------------------------ characters

Digits == <<"0", "1", "2", "3", "4", "5", "6", "7", "8", "9">>

IsDigit(c) == \E k \in 1..Len(Digits) : Digits[k] = c

DigitVal(c) == (CHOOSE k \in 1..Len(Digits) : Digits[k] = c) - 1

AllDigits(chars) == \A k \in 1..Len(chars) : IsDigit(chars[k])

\* int(chars) for a non-empty run of decimal digits
RECURSIVE ToNat(_)
ToNat(chars) ==
    IF chars = <<>> THEN 0
    ELSE ToNat(SubSeq(chars, 1, Len(chars) - 1)) * Len(Digits) + DigitVal(chars[Len(chars)])

\* str.replace(old, new) for a single character `old`
RECURSIVE StrReplace(_, _, _)
StrReplace(chars, old, new) ==
    IF chars = <<>> THEN <<>>
    ELSE (IF Head(chars) = old THEN new ELSE <<Head(chars)>>)
         \o StrReplace(Tail(chars), old, new)

\* the position of the first character of `chars` that is in `set`, 0 if none
RECURSIVE FirstOf(_, _)
FirstOf(chars, set) ==
    IF chars = <<>> THEN 0
    ELSE IF Head(chars) \in set THEN 1
    ELSE IF FirstOf(Tail(chars), set) = 0 THEN 0
    ELSE FirstOf(Tail(chars), set) + 1

\* ------------------------------------------------------------ calendar

SecondsPerDay == 86400

IsLeap(y) == (y % 4 = 0) /\ ((y % 100 # 0) \/ (y % 400 = 0))

DaysInMonth(y, m) ==
    CASE m \in {4, 6, 9, 11} -> 30
      [] m = 2 -> IF IsLeap(y) THEN 29 ELSE 28
      [] OTHER -> 31

\* datetime(y, m, d, ...) raises ValueError outside these ranges
ValidDate(y, m, d) ==
    /\ y \in 1..9999
    /\ m \in 1..12
    /\ d \in 1..DaysInMonth(y, m)

\* days from 1970-01-01 to the proleptic Gregorian date y-m-d: the days of
\* the 400-year eras before it, of the years of its era, and of its year
\* counted from 1 March (yy is the year that began on the last 1 March)
DaysOfEra(yy, mp, d) ==
    (yy % 400) * 365 + (yy % 400) \div 4 - (yy % 400) \div 100
    + (153 * mp + 2) \div 5 + d - 1

DaysFromCivil(y, m, d) ==
    IF m <= 2
    THEN ((y - 1) \div 400) * 146097 + DaysOfEra(y - 1, m + 9, d) - 719468
    ELSE (y \div 400) * 146097 + DaysOfEra(y, m - 3, d) - 719468

\* A parsed datetime: wall is its wall-clock time in seconds from
\* 1970-01-01T00:00:00 on its own clock; aware/off is its tzinfo.
ParseFail == [ok |-> FALSE, aware |-> FALSE, wall |-> 0, off |-> 0]

Parsed(wall, aware, off) == [ok |-> TRUE, aware |-> aware, wall |-> wall, off |-> off]

\* datetime.timestamp(): a naive datetime is read on the local clock (whose
\* UTC offset is localOffset), an aware one on its own offset.
Timestamp(dt, localOffset) ==
    IF dt.aware THEN dt.wall - dt.off ELSE dt.wall - localOffset

\* HH[:MM[:SS]] (datetime._parse_hh_mm_ss_ff, fractions of a second left out:
\* no modelled input carries one).  A failure is [ok |-> FALSE].
HHMMSSShape(chars) ==
    /\ Len(chars) \in {2, 5, 8}
    /\ AllDigits(SubSeq(chars, 1, 2))
    /\ (Len(chars) >= 5 => chars[3] = ":" /\ AllDigits(SubSeq(chars, 4, 5)))
    /\ (Len(chars) >= 8 => chars[6] = ":" /\ AllDigits(SubSeq(chars, 7, 8)))

HHMMSS(hh, mm, ss) ==
    [ok |-> TRUE, hh |-> hh, mm |-> mm, ss |-> ss, secs |-> hh * 3600 + mm * 60 + ss]

ParseHHMMSS(chars) ==
    IF HHMMSSShape(chars)
    THEN HHMMSS(ToNat(SubSeq(chars, 1, 2)),
                IF Len(chars) >= 5 THEN ToNat(SubSeq(chars, 4, 5)) ELSE 0,
                IF Len(chars) >= 8 THEN ToNat(SubSeq(chars, 7, 8)) ELSE 0)
    ELSE [ok |-> FALSE, hh |-> 0, mm |-> 0, ss |-> 0, secs |-> 0]

\* datetime.fromisoformat (the grammar common to Python 3.7 and later):
\* YYYY-MM-DD, optionally one separator character and HH[:MM[:SS]], optionally
\* followed by a UTC offset +HH:MM or -HH:MM.
IsoDateShape(chars) ==
    /\ Len(chars) >= 10
    /\ AllDigits(SubSeq(chars, 1, 4))
    /\ chars[5] = "-"
    /\ AllDigits(SubSeq(chars, 6, 7))
    /\ chars[8] = "-"
    /\ AllDigits(SubSeq(chars, 9, 10))

\* the datetime of a date (in days), a parsed time and a parsed offset
\* (hasTz: an offset was written; negative: with a "-" sign)
IsoDatetime(days, time, hasTz, tz, tzLen, negative) ==
    IF /\ time.ok /\ time.hh <= 23 /\ time.mm <= 59 /\ time.ss <= 59
       /\ (hasTz => tz.ok /\ tzLen >= 5 /\ tz.secs < 24 * 3600)
    THEN Parsed(days * SecondsPerDay + time.secs, hasTz,
                IF ~hasTz THEN 0 ELSE IF negative THEN 0 - tz.secs ELSE tz.secs)
    ELSE ParseFail

\* the time part tstr, with `sign` the position of its first "+" or "-" (0: none)
IsoTime(days, tstr, sign) ==
    IF sign = 0
    THEN IsoDatetime(days, ParseHHMMSS(tstr), FALSE, ParseHHMMSS(<<>>), 0, FALSE)
    ELSE IsoDatetime(days, ParseHHMMSS(SubSeq(tstr, 1, sign - 1)), TRUE,
                     ParseHHMMSS(SubSeq(tstr, sign + 1, Len(tstr))),
                     Len(tstr) - sign, tstr[sign] = "-")

IsoDate(y, m, d, n, tstr) ==
    IF ~ValidDate(y, m, d) THEN ParseFail
    ELSE IF n = 10 THEN Parsed(DaysFromCivil(y, m, d) * SecondsPerDay, FALSE, 0)
    ELSE IF n = 11 THEN ParseFail
    ELSE IsoTime(DaysFromCivil(y, m, d), tstr, FirstOf(tstr, {"+", "-"}))

fromisoformat(chars) ==
    IF ~IsoDateShape(chars) THEN ParseFail
    ELSE IsoDate(ToNat(SubSeq(chars, 1, 4)), ToNat(SubSeq(chars, 6, 7)),
                 ToNat(SubSeq(chars, 9, 10)), Len(chars), SubSeq(chars, 12, Len(chars)))

\* datetime.strptime(chars, "%Y-%m-%d"): four digits, "-", a month of one or
\* two digits, "-", a day of one or two digits, and nothing after it.
YmdDate(y, m, d) ==
    IF ValidDate(y, m, d)
    THEN Parsed(DaysFromCivil(y, m, d) * SecondsPerDay, FALSE, 0)
    ELSE ParseFail

\* ystr: the first four characters; rest: what follows the "-" after them;
\* dash: the position of the first "-" in rest
YmdParts(ystr, rest, dash) ==
    IF /\ AllDigits(ystr)
       /\ dash \in {2, 3}
       /\ AllDigits(SubSeq(rest, 1, dash - 1))
       /\ Len(rest) - dash \in {1, 2}
       /\ AllDigits(SubSeq(rest, dash + 1, Len(rest)))
    THEN YmdDate(ToNat(ystr), ToNat(SubSeq(rest, 1, dash - 1)),
                 ToNat(SubSeq(rest, dash + 1, Len(rest))))
    ELSE ParseFail

strptime_Ymd(chars) ==
    IF Len(chars) >= 8 /\ chars[5] = "-"
    THEN YmdParts(SubSeq(chars, 1, 4), SubSeq(chars, 6, Len(chars)),
                  FirstOf(SubSeq(chars, 6, Len(chars)), {"-"}))
    ELSE ParseFail

\* ------------------------------------------------------------ _format_timestamp

\* FormatString with the bug of no fallback to the date-only format
FormatString_NoFallback(iso, ymd, localOffset) ==
    IF iso.ok THEN Return(PyInt(Timestamp(iso, localOffset)))
    ELSE Raise("ValueError", "Invalid isoformat string", <<>>)

\* the str branch (lines 297-303), from the two parses
FormatString(iso, ymd, localOffset) ==
    IF iso.ok THEN Return(PyInt(Timestamp(iso, localOffset)))
    ELSE IF ymd.ok THEN Return(PyInt(Timestamp(ymd, localOffset)))
    ELSE Raise("ValueError", "time data does not match format '%Y-%m-%d'", <<>>)

\* _format_timestamp with the bug of taking an int for milliseconds
_format_timestamp_Millis(timestamp, localOffset) ==
    CASE timestamp.t = "str" ->
           FormatString(fromisoformat(StrReplace(timestamp.s, "Z",
                                                 <<"+", "0", "0", ":", "0", "0">>)),
                        strptime_Ymd(timestamp.s), localOffset)
      [] timestamp.t = "datetime" -> Return(PyInt(timestamp.i))
      [] timestamp.t = "int" -> Return(PyInt(timestamp.i \div 1000))
      [] OTHER -> Raise("ValueError", "Unsupported timestamp format", <<>>)

\* GlassnodeClient._format_timestamp: a str is tried as ISO-8601 with every
\* "Z" replaced by "+00:00" and then as %Y-%m-%d (whose ValueError escapes);
\* a datetime gives int(timestamp()); an int is returned as it is; anything
\* else raises ValueError.
_format_timestamp(timestamp, localOffset) ==
    CASE timestamp.t = "str" ->
           FormatString(fromisoformat(StrReplace(timestamp.s, "Z",
                                                 <<"+", "0", "0", ":", "0", "0">>)),
                        strptime_Ymd(timestamp.s), localOffset)
      [] timestamp.t = "datetime" -> Return(PyInt(timestamp.i))
      [] timestamp.t = "int" -> Return(timestamp)
      [] OTHER -> Raise("ValueError", "Unsupported timestamp format", <<>>)

\* ------------------------------------------------------------ _validate_bulk_timerange

\* the `constraints` table: maximum days by interval
constraints ==
    (<<"1", "0", "m">> :> 10) @@ (<<"1", "h">> :> 10) @@
    (<<"2", "4", "h">> :> 31) @@ (<<"1", "d">> :> 31) @@
    (<<"1", "w">> :> 93) @@ (<<"1", "m", "o", "n", "t", "h">> :> 93)

\* constraints_get with the bug of a default maximum for an unknown interval
\* (constraints.get(interval, 10))
constraints_get_Default(interval) ==
    IF interval.t = "str" /\ interval.s \in DOMAIN constraints
    THEN PyInt(constraints[interval.s])
    ELSE PyInt(10)

\* constraints.get(interval): None for a key that is not in the table
constraints_get(interval) ==
    IF interval.t = "str" /\ interval.s \in DOMAIN constraints
    THEN PyInt(constraints[interval.s])
    ELSE PyNone

\* DurationExceeds with the bug of `>=` for `>`
DurationExceeds_OrEqual(start_ts, end_ts, max_days) ==
    (end_ts - start_ts) >= max_days * SecondsPerDay

\* duration_days > max_days, where duration_days = (end_ts - start_ts) / 86400
\* is a correctly rounded float quotient: for integers of this size the
\* comparison is that of the exact quotient.
DurationExceeds(start_ts, end_ts, max_days) ==
    (end_ts - start_ts) > max_days * SecondsPerDay

\* f"{duration_days:.1f}" (line 267) for a span in seconds: the days and the
\* one decimal printed, rounded to the nearest tenth.  (A span halfway between
\* two tenths, 4320 s times an odd number, is rounded as its float falls; no
\* modelled span is one.)
OneDecimal(tenths) == [days |-> tenths \div 10, tenth |-> tenths % 10]

DaysOneDecimal(seconds) == OneDecimal((seconds * 10 + 43200) \div SecondsPerDay)

\* CheckTimerange with the bug of a message that prints the maximum in the
\* place of the requested span
CheckTimerange_PrintsMax(start_ts, end_ts, max_days, interval) ==
    IF Raised(start_ts) THEN start_ts
    ELSE IF Raised(end_ts) THEN end_ts
    ELSE IF Truthy(max_days) /\ DurationExceeds(start_ts.val.i, end_ts.val.i, max_days.i)
    THEN Raise("ValueError", "Timerange too large",
               <<interval, max_days, DaysOneDecimal(max_days.i * SecondsPerDay)>>)
    ELSE Return(PyNone)

\* lines 250-268, from the two converted timestamps and the looked-up
\* maximum.  The ValueError's message names the interval, the maximum and
\* the span in days with one decimal.
CheckTimerange(start_ts, end_ts, max_days, interval) ==
    IF Raised(start_ts) THEN start_ts
    ELSE IF Raised(end_ts) THEN end_ts
    ELSE IF Truthy(max_days) /\ DurationExceeds(start_ts.val.i, end_ts.val.i, max_days.i)
    THEN Raise("ValueError", "Timerange too large",
               <<interval, max_days, DaysOneDecimal(end_ts.val.i - start_ts.val.i)>>)
    ELSE Return(PyNone)

\* GlassnodeClient._validate_bulk_timerange; returns None or raises
_validate_bulk_timerange(since, until, interval, localOffset) ==
    IF ~Truthy(since) \/ ~Truthy(until) THEN Return(PyNone)
    ELSE CheckTimerange(_format_timestamp(since, localOffset),
                        _format_timestamp(until, localOffset),
                        constraints_get(interval), interval)

\* ------------------------------------------------------------ parameter encoding

\* ParamPairs with the bug of a missing `if value is not None`
ParamPairs_KeepNone(key, value) ==
    IF value.t = "list" THEN [k \in 1..Len(value.l) |-> <<key, value.l[k]>>]
    ELSE <<<<key, value>>>>

\* _make_request, lines 106-115: the (key, value) pairs handed to the
\* transport, from the items of the merged params dict.
ParamPairs(key, value) ==
    IF value.t = "none" THEN <<>>
    ELSE IF value.t = "list" THEN [k \in 1..Len(value.l) |-> <<key, value.l[k]>>]
    ELSE <<<<key, value>>>>

RECURSIVE final_params(_)
final_params(items) ==
    IF items = <<>> THEN <<>>
    ELSE ParamPairs(items[1][1], items[1][2]) \o final_params(Tail(items))

\* _make_request, lines 101-104: params (None stands for no dict) merged
\* with the keyword arguments
MergeParams(params, kwargs) ==
    DictUpdate(IF params.t = "none" THEN <<>> ELSE params.d, kwargs)

\* str.lstrip("/") and str.rstrip("/")
RECURSIVE lstrip(_)
lstrip(chars) ==
    IF chars # <<>> /\ Head(chars) = "/" THEN lstrip(Tail(chars)) ELSE chars

RECURSIVE rstrip(_)
rstrip(chars) ==
    IF chars # <<>> /\ chars[Len(chars)] = "/"
    THEN rstrip(SubSeq(chars, 1, Len(chars) - 1))
    ELSE chars

\* _make_request, line 117
RequestUrl_Concat(base_url, endpoint) == base_url \o <<"/">> \o endpoint

RequestUrl(base_url, endpoint) == base_url \o <<"/">> \o lstrip(endpoint)

\* ------------------------------------------------------------ pandas

\* A pandas Timestamp / NaT, what pd.to_datetime(..., unit='s') makes of a cell.
PdTimestamp(n) == [t |-> "Timestamp", i |-> n, s |-> <<>>, l |-> <<>>, d |-> <<>>]

NaT == [t |-> "NaT", i |-> 0, s |-> <<>>, l |-> <<>>, d |-> <<>>]

\* whether pd.to_datetime(unit='s') converts the cell; it raises otherwise
Convertible(v) ==
    \/ v.t \in {"int", "float", "none"}
    \/ v.t = "str" /\ v.s # <<>> /\ AllDigits(v.s)

to_datetime(v) ==
    CASE v.t \in {"int", "float"} -> PdTimestamp(v.i)
      [] v.t = "str" -> PdTimestamp(ToNat(v.s))
      [] OTHER -> NaT

\* the items of a dict without `key`
RECURSIVE DictWithout(_, _)
DictWithout(items, key) ==
    IF items = <<>> THEN <<>>
    ELSE (IF items[1][1] = key THEN <<>> ELSE <<items[1]>>)
         \o DictWithout(Tail(items), key)

\* pd.DataFrame(rows) for a list of dicts, then df['t'] = pd.to_datetime(df['t'],
\* unit='s') and df.set_index('t'): one frame row per dict, in list order; a
\* cell a row lacks is NaN (the row simply has no item for that column).
IndexedByT(rows) ==
    IF \E k \in 1..Len(rows) : ~Convertible(DictGet(rows[k].d, "t"))
    THEN Raise("ValueError", "non convertible value with the unit 's'", <<>>)
    ELSE ReturnFrame([indexed |-> TRUE,
                      index |-> [k \in 1..Len(rows) |-> to_datetime(DictGet(rows[k].d, "t"))],
                      rows |-> [k \in 1..Len(rows) |-> DictWithout(rows[k].d, "t")]])

\* ------------------------------------------------------------ _process_bulk_response

\* what a `for` loop can run over, and what it then yields (the characters of
\* a str, the keys of a dict: strings either way)
Iterable(v) == v.t \in {"list", "str", "dict"}

Elements(v) ==
    CASE v.t = "list" -> v.l
      [] v.t = "str" -> [k \in 1..Len(v.s) |-> PyStr(<<v.s[k]>>)]
      [] v.t = "dict" -> [k \in 1..Len(v.d) |-> PyStr(<<v.d[k][1]>>)]
      [] OTHER -> <<>>

\* row = {'t': timestamp}; row.update(entry).  An entry that is an empty list
\* or str updates nothing.
BulkRow(timestamp, entry) == PyDict(DictUpdate(<<<<"t", timestamp>>>>, entry.d))

\* Rows with the bug of rows.insert(0, row) for rows.append(row)
Rows_Reversed(here, more) ==
    IF Raised(here) THEN here
    ELSE IF Raised(more) THEN more
    ELSE Return(PyList(more.val.l \o here.val.l))

\* rows.append(row) onto the rows of the rest of the loop; an exception
\* raised earlier in the loop wins
Rows(here, more) ==
    IF Raised(here) THEN here
    ELSE IF Raised(more) THEN more
    ELSE Return(PyList(here.val.l \o more.val.l))

\* the inner loop (lines 280-283) over one time point's bulk entries: the
\* rows appended, or the exception row.update raises on an entry that is no
\* mapping
RECURSIVE BulkRows(_, _)
BulkRows(timestamp, entries) ==
    IF entries = <<>> THEN Return(PyList(<<>>))
    ELSE IF Head(entries).t = "str" /\ Head(entries).s # <<>>
    THEN Raise("ValueError", "dictionary update sequence element has length 1", <<>>)
    ELSE IF Head(entries).t # "dict" /\ Elements(Head(entries)) # <<>>
    THEN Raise("TypeError", "cannot convert dictionary update sequence element", <<>>)
    ELSE IF ~Iterable(Head(entries))
    THEN Raise("TypeError", "object is not iterable", <<>>)
    ELSE Rows(Return(PyList(<<BulkRow(timestamp, Head(entries))>>)),
              BulkRows(timestamp, Tail(entries)))

\* time_point.get('bulk', [])
bulk_entries(time_point) ==
    IF DictHas(time_point.d, "bulk") THEN DictGet(time_point.d, "bulk") ELSE PyList(<<>>)

\* lines 277-283 for one time point
OnePointRows(time_point) ==
    IF time_point.t # "dict"
    THEN Raise("TypeError", "object is not subscriptable", <<>>)
    ELSE IF ~DictHas(time_point.d, "t")
    THEN Raise("KeyError", "t", <<>>)
    ELSE IF ~Iterable(bulk_entries(time_point))
    THEN Raise("TypeError", "object is not iterable", <<>>)
    ELSE BulkRows(DictGet(time_point.d, "t"), Elements(bulk_entries(time_point)))

\* the outer loop (lines 276-283) over data['data']
RECURSIVE TimePointRows(_)
TimePointRows(points) ==
    IF points = <<>> THEN Return(PyList(<<>>))
    ELSE Rows(OnePointRows(Head(points)), TimePointRows(Tail(points)))

\* BulkFrame with the bug of a missing `if not rows` guard: df['t'] on the
\* empty frame raises KeyError
BulkFrame_NoEmptyCheck(rows) ==
    IF Raised(rows) THEN rows
    ELSE IF rows.val.l = <<>> THEN Raise("KeyError", "t", <<>>)
    ELSE IndexedByT(rows.val.l)

\* lines 285-292, from the rows collected
BulkFrame(rows) ==
    IF Raised(rows) THEN rows
    ELSE IF rows.val.l = <<>> THEN ReturnFrame(NoFrame)
    ELSE IndexedByT(rows.val.l)

\* _process_bulk_response with the bug of data.get('data', []) for the shape
\* check of line 272
_process_bulk_response_NoShapeCheck(data) ==
    IF data.t # "dict" \/ ~DictHas(data.d, "data")
    THEN ReturnFrame(NoFrame)
    ELSE IF ~Iterable(DictGet(data.d, "data"))
    THEN Raise("TypeError", "object is not iterable", <<>>)
    ELSE BulkFrame(TimePointRows(Elements(DictGet(data.d, "data"))))

\* GlassnodeClient._process_bulk_response
_process_bulk_response(data) ==
    IF data.t # "dict" \/ ~DictHas(data.d, "data")
    THEN Raise("GlassnodeAPIError", "Invalid bulk response format", <<>>)
    ELSE IF ~Iterable(DictGet(data.d, "data"))
    THEN Raise("TypeError", "object is not iterable", <<>>)
    ELSE BulkFrame(TimePointRows(Elements(DictGet(data.d, "data"))))

\* ------------------------------------------------------------ get_data, get_bulk_data

JSON == PyStr(<<"j", "s", "o", "n">>)

CSV == PyStr(<<"c", "s", "v">>)

\* `self._format_timestamp(x) if x else None`
FormatIfGiven(x, localOffset) ==
    IF Truthy(x) THEN _format_timestamp(x, localOffset) ELSE Return(PyNone)

\* get_data, lines 155-163: the params dict, or the exception raised on the
\* way (s, u: the converted since and until)
SingleParams(c, s, u) ==
    IF Raised(s) THEN s
    ELSE IF Raised(u) THEN u
    ELSE Return(PyDict(DictUpdate(
             <<<<"a", c.asset>>, <<"s", s.val>>, <<"u", u.val>>,
               <<"i", c.interval>>, <<"f", c.format>>, <<"c", c.currency>>>>,
             c.kwargs)))

get_data_params(c, localOffset) ==
    SingleParams(c, FormatIfGiven(c.since, localOffset), FormatIfGiven(c.until, localOffset))

\* pd.DataFrame(data) for a list, then the `if 't' in df.columns` branch of
\* get_data (lines 168-172).  pandas takes a list whose first element is a
\* mapping as a list of records; elements that are no mappings make one
\* column, named 0.
SingleFrame(rows) ==
    IF rows = <<>> THEN ReturnFrame(NoFrame)
    ELSE IF Head(rows).t = "dict"
    THEN IF \E k \in 1..Len(rows) : rows[k].t # "dict"
         THEN Raise("AttributeError", "object has no attribute 'keys'", <<>>)
         ELSE IF \E k \in 1..Len(rows) : DictHas(rows[k].d, "t")
         THEN IndexedByT(rows)
         ELSE ReturnFrame([indexed |-> FALSE, index |-> <<>>,
                           rows |-> [k \in 1..Len(rows) |-> rows[k].d]])
    ELSE ReturnFrame([indexed |-> FALSE, index |-> <<>>,
                      rows |-> [k \in 1..Len(rows) |-> <<<<"0", rows[k]>>>>]])

\* get_data_result with the bug of a frame made of any JSON body
get_data_result_FrameAnything(format, data) ==
    IF format # JSON THEN Return(data)
    ELSE IF data.t = "list" THEN SingleFrame(data.l)
    ELSE SingleFrame(<<data>>)

\* get_data_result with the bug of a table given latest row first
get_data_result_Reversed(format, data) ==
    IF format = JSON /\ data.t = "list"
    THEN SingleFrame([k \in 1..Len(data.l) |-> data.l[Len(data.l) + 1 - k]])
    ELSE Return(data)

\* get_data, lines 167-174
get_data_result(format, data) ==
    IF format = JSON /\ data.t = "list" THEN SingleFrame(data.l) ELSE Return(data)

\* get_bulk_data, lines 218-231: the params dict (s, u: the converted since
\* and until)
BulkDict(c, s, u) ==
    DictUpdate(
        IF Truthy(c.assets)
        THEN <<<<"s", s>>, <<"u", u>>, <<"i", c.interval>>, <<"f", JSON>>,
               <<"c", c.currency>>, <<"a", c.assets>>>>
        ELSE <<<<"s", s>>, <<"u", u>>, <<"i", c.interval>>, <<"f", JSON>>,
               <<"c", c.currency>>>>,
        c.kwargs)

\* get_bulk_data, lines 214-231: the params dict, or the exception raised by
\* the timerange validation (v) or the timestamp conversions (s, u)
BulkParams(c, v, s, u) ==
    IF Raised(v) THEN v
    ELSE IF Raised(s) THEN s
    ELSE IF Raised(u) THEN u
    ELSE Return(PyDict(BulkDict(c, s.val, u.val)))

get_bulk_data_params(c, localOffset) ==
    BulkParams(c, _validate_bulk_timerange(c.since, c.until, c.interval, localOffset),
               FormatIfGiven(c.since, localOffset), FormatIfGiven(c.until, localOffset))

\* get_bulk_data, line 234
bulk_endpoint(endpoint) == rstrip(endpoint) \o <<"/", "b", "u", "l", "k">>

\* BaseEndpoints._get_data / _get_bulk_data, lines 321 and 326
full_endpoint(base_path, endpoint) ==
    IF base_path # <<>> THEN base_path \o <<"/">> \o endpoint ELSE endpoint

\* ------------------------------------------------------------ the transport

\* What the transport does with a GET: the request fails ("ConnectionError",
\* "Timeout", or "HTTPError" from raise_for_status), or a body arrives that
\* is JSON (json = TRUE, body its parsed value) or is not.  For a body that
\* is no JSON, response.json() raises requests' JSONDecodeError, which newer
\* versions of requests derive from RequestException (decodeError =
\* "RequestException") and older ones do not ("JSONDecodeError").
Reply(status, json, decodeError, body) ==
    [status |-> status, json |-> json, decodeError |-> decodeError, body |-> body]

NoReply == Reply("", FALSE, "", PyNone)

\* _make_request, lines 119-126
_make_request_result(reply) ==
    IF reply.status # "ok"
    THEN Raise("GlassnodeAPIError", "API request failed", <<>>)
    ELSE IF ~reply.json
    THEN IF reply.decodeError = "RequestException"
         THEN Raise("GlassnodeAPIError", "API request failed", <<>>)
         ELSE Raise("GlassnodeAPIError", "Failed to parse JSON response", <<>>)
    ELSE Return(reply.body)

\* the request _make_request hands to session.get (lines 101-120)
Request(base_url, endpoint, params, kwargs) ==
    [url |-> RequestUrl(base_url, endpoint),
     params |-> final_params(MergeParams(params, kwargs))]

\* ------------------------------------------------------------ state

VARIABLES
    pc,       \* "new" (no client yet), "idle", "inflight" (a GET is with the
              \* transport), "returned", "raised"
    call,     \* the method being run, its arguments, and the transport's reply
    gets,     \* the requests the transport has recorded for this call
    nGets,    \* the GETs the session has issued since construction
    outcome,  \* what the call returned or raised
    client,   \* the constructed client: its api_key and its session's headers
    env,      \* the value of the GLASSNODE_API_KEY environment variable
    history,  \* the requests recorded for the earlier calls of a run of
              \* identical calls
    threads   \* for each of two concurrent callers, the frame of the call it
              \* is in: its position, arguments, locals, request and outcome

vars == <<pc, call, gets, nGets, outcome, client, env, history, threads>>

\* GlassnodeClient.__init__, lines 48-60
NoClient == [api_key |-> PyNone, base_url |-> <<>>, headers |-> <<>>]

\* resolve with the bug of the environment variable taking precedence
resolve_EnvFirst(api_key, environ) == IF Truthy(environ) THEN environ ELSE api_key

\* self.api_key = api_key or os.getenv("GLASSNODE_API_KEY")
resolve(api_key, environ) == IF Truthy(api_key) THEN api_key ELSE environ

session_headers(api_key) ==
    <<<<"X-Api-Key", api_key>>,
      <<"User-Agent", PyStr(<<"g", "l", "a", "s", "s", "n", "o", "d", "e", "-", "p", "y", "t", "h", "o", "n", "-", "c", "l", "i", "e", "n", "t">>)>>>>

GlassnodeClient(api_key, base_url, environ) ==
    IF ~Truthy(resolve(api_key, environ))
    THEN Raise("ValueError", "API key is required", <<>>)
    ELSE Return(PyDict(<<<<"api_key", resolve(api_key, environ)>>,
                         <<"base_url", PyStr(rstrip(base_url))>>,
                         <<"headers", PyDict(session_headers(resolve(api_key, environ)))>>>>))

Constructed(o) ==
    [api_key |-> DictGet(o.val.d, "api_key"),
     base_url |-> DictGet(o.val.d, "base_url").s,
     headers |-> DictGet(o.val.d, "headers").d]

\* what session.get sends: the request with the session's headers merged in
Sent(request, headers) ==
    [url |-> request.url, params |-> request.params, headers |-> headers]

\* the default of GlassnodeClient.__init__'s base_url argument, line 45
default_base_url == <<"h", "t", "t", "p", "s", ":", "/", "/", "a", "p", "i", ".", "g", "l", "a", "s", "s", "n", "o", "d", "e", ".", "c", "o", "m", "/", "v", "1">>

\* bounds of the model
MaxGets == 2

MaxPoints == 2

MaxKeys == 2

\* ------------------------------------------------------------ inputs

Day(n) == n * SecondsPerDay

\* UTC offsets of the local clock the process may run under
LocalOffsets == {0, 3600, 0 - 18000}

BoundaryDays == {1, 10, 11, 31, 32, 93, 94}

TimeStrings ==
    { <<>>,
      <<"1", "9", "7", "0", "-", "0", "1", "-", "0", "1">>,
      <<"1", "9", "7", "0", "-", "0", "1", "-", "1", "2">>,
      <<"1", "9", "7", "0", "-", "1", "-", "2">>,
      <<"1", "9", "7", "0", "-", "0", "2", "-", "3", "0">>,
      <<"1", "9", "7", "0", "-", "0", "1", "-", "1", "2", "T", "0", "0", ":", "0", "0", ":", "0", "0", "Z">>,
      <<"1", "9", "7", "0", "-", "0", "2", "-", "0", "2", " ", "1", "2", ":", "3", "0", ":", "0", "0", "+", "0", "1", ":", "0", "0">>,
      <<"n", "o", "p", "e">> }

TimeInputs ==
    {PyNone, PyInt(0), PyInt(0 - SecondsPerDay), PyInt(Day(10) + 1), PyFloat(1),
     PyDatetime(0), PyDatetime(Day(11))}
    \cup {PyInt(Day(n)) : n \in BoundaryDays}
    \cup {PyStr(chars) : chars \in TimeStrings}

\* the times the request-level calls draw from
CallTimes ==
    {PyNone, PyInt(0), PyInt(Day(1)), PyInt(Day(32)),
     PyStr(<<"1", "9", "7", "0", "-", "0", "1", "-", "0", "1">>), PyStr(<<"n", "o", "p", "e">>),
     PyStr(<<>>)}

Intervals ==
    {PyStr(chars) : chars \in DOMAIN constraints} \cup {PyStr(<<"2", "h">>), PyNone}

CallIntervals == {PyStr(<<"2", "4", "h">>), PyStr(<<"1", "0", "m">>), PyNone}

BTC == PyStr(<<"B", "T", "C">>)

ETH == PyStr(<<"E", "T", "H">>)

USD == PyStr(<<"U", "S", "D">>)

AssetLists == {PyNone, PyList(<<>>), PyList(<<BTC, ETH>>)}

KwargSets ==
    { <<>>,
      <<<<"e", PyList(<<PyStr(<<"x">>), PyStr(<<"y">>)>>)>>>>,
      <<<<"i", PyStr(<<"1", "h">>)>>, <<"f", CSV>>>>,
      <<<<"s", PyInt(0)>>, <<"u", PyInt(Day(94))>>>> }

\* sequences over S of length at most n
RECURSIVE SeqsUpTo(_, _)
SeqsUpTo(S, n) ==
    IF n = 0 THEN {<<>>}
    ELSE LET shorter == SeqsUpTo(S, n - 1)
         IN shorter \cup {Append(q, x) : q \in shorter, x \in S}

\* bulk bodies: {"data": [{"t": ..., "bulk": [...]}, ...]} with the `t` or the
\* `bulk` of a time point possibly missing, and entries that may carry a `t`
\* of their own
BulkLists ==
    { <<>>,
      <<PyDict(<<<<"a", BTC>>, <<"v", PyInt(1)>>>>)>>,
      <<PyDict(<<<<"a", BTC>>, <<"v", PyInt(1)>>>>),
        PyDict(<<<<"a", ETH>>, <<"v", PyInt(2)>>, <<"t", PyInt(5)>>>>)>>,
      <<PyDict(<<<<"a", ETH>>, <<"v", PyInt(2)>>, <<"t", PyInt(5)>>>>),
        PyDict(<<<<"a", BTC>>, <<"v", PyInt(1)>>>>)>> }

TimePoint(t, bulk) ==
    PyDict((IF t.t = "none" THEN <<>> ELSE <<<<"t", t>>>>)
           \o (IF bulk.t = "none" THEN <<>> ELSE <<<<"bulk", bulk>>>>))

TimePoints ==
    { TimePoint(t, bulk) :
        t \in {PyNone, PyInt(1000), PyInt(2000)},
        bulk \in {PyNone} \cup {PyList(q) : q \in BulkLists} }

BulkBody(points) == PyDict(<<<<"data", PyList(points)>>>>)

ShapedBodies == {BulkBody(q) : q \in SeqsUpTo(TimePoints, MaxPoints)}

\* bodies of other shapes
OddBodies ==
    { PyNone, PyInt(5), PyList(<<>>), PyDict(<<>>),
      PyList(<<PyDict(<<<<"t", PyInt(1000)>>, <<"v", PyInt(7)>>>>)>>),
      PyDict(<<<<"error", PyStr(<<"x">>)>>>>),
      PyDict(<<<<"data", PyNone>>>>),
      PyDict(<<<<"data", PyInt(5)>>>>),
      PyDict(<<<<"data", PyDict(<<>>)>>>>),
      BulkBody(<<PyInt(5)>>),
      BulkBody(<<TimePoint(PyInt(1000), PyInt(5))>>),
      BulkBody(<<TimePoint(PyInt(1000), PyList(<<PyInt(5)>>))>>),
      BulkBody(<<TimePoint(PyInt(1000), PyList(<<PyList(<<>>)>>))>>),
      BulkBody(<<TimePoint(PyStr(<<"x">>), PyList(<<PyDict(<<<<"a", BTC>>>>)>>))>>) }

Bodies == ShapedBodies \cup OddBodies

\* the bodies the request-level calls draw from
CallBodies ==
    { PyInt(5), PyDict(<<>>), PyDict(<<<<"data", PyInt(5)>>>>),
      BulkBody(<<TimePoint(PyInt(1000), PyList(<<PyInt(5)>>))>>),
      BulkBody(<<>>),
      BulkBody(<<TimePoint(PyInt(1000), PyNone)>>),
      BulkBody(<<TimePoint(PyNone, PyList(<<>>))>>),
      BulkBody(<<TimePoint(PyInt(1000), PyList(<<PyDict(<<<<"a", BTC>>, <<"v", PyInt(1)>>>>),
                                                 PyDict(<<<<"a", ETH>>, <<"v", PyInt(2)>>>>)>>))>>),
      PyList(<<PyDict(<<<<"t", PyInt(1000)>>, <<"v", PyInt(7)>>>>),
               PyDict(<<<<"t", PyStr(<<"x">>)>>, <<"v", PyInt(8)>>>>)>>),
      PyList(<<PyDict(<<<<"v", PyInt(7)>>>>)>>),
      PyList(<<PyDict(<<<<"t", PyInt(2000)>>, <<"v", PyInt(7)>>>>),
               PyDict(<<<<"t", PyInt(1000)>>, <<"v", PyStr(<<"x">>)>>>>)>>) }

Replies ==
    {Reply(st, FALSE, "", PyNone) : st \in {"ConnectionError", "Timeout", "HTTPError"}}
    \cup {Reply("ok", FALSE, e, PyNone) : e \in {"RequestException", "JSONDecodeError"}}
    \cup {Reply("ok", TRUE, "", b) : b \in CallBodies}

\* parameter mappings: at most MaxKeys distinct keys, in any insertion order
ParamKeys == {"a", "s", "b"}

ParamValues ==
    {PyNone, PyInt(100), PyList(<<>>), PyList(<<BTC, ETH>>), PyList(<<ETH, ETH>>)}

RECURSIVE ParamItems(_)
ParamItems(n) ==
    IF n = 0 THEN {<<>>}
    ELSE LET shorter == ParamItems(n - 1)
         IN shorter \cup
            { Append(q, <<k, v>>) :
                q \in {r \in shorter : Len(r) = n - 1},
                k \in ParamKeys, v \in ParamValues }

ParamSets ==
    {PyNone} \cup
    { PyDict(q) : q \in {r \in ParamItems(MaxKeys) :
                           \A x, y \in 1..Len(r) : r[x][1] = r[y][1] => x = y} }

ParamKwargs == { <<>>, <<<<"z", PyNone>>, <<"a", PyList(<<ETH>>)>>>> }

market_base_path == <<"m", "e", "t", "r", "i", "c", "s", "/", "m", "a", "r", "k", "e", "t">>

Endpoints ==
    { <<"m", "e", "t", "r", "i", "c", "s", "/", "m", "a", "r", "k", "e", "t", "/", "p", "r", "i", "c", "e", "_", "u", "s", "d", "_", "c", "l", "o", "s", "e">>,
      <<"/", "m", "e", "t", "r", "i", "c", "s", "/", "m", "a", "r", "k", "e", "t", "/", "m", "v", "r", "v", "/">> }

\* ------------------------------------------------------------ the calls

NoCall ==
    [method |-> "", tz |-> 0, endpoint |-> <<>>, asset |-> PyNone, assets |-> PyNone,
     since |-> PyNone, until |-> PyNone, interval |-> PyNone, format |-> PyNone,
     currency |-> PyNone, kwargs |-> <<>>, params |-> PyNone,
     caller_params |-> PyNone, data |-> PyNone,
     reply |-> NoReply, api_key |-> PyNone, base_url |-> <<>>, environ |-> PyNone]

\* the two concurrent callers, and a caller that is in no call
Threads == {1, 2}

IdleThread ==
    [pc |-> "idle", call |-> NoCall, params |-> NoOutcome, request |-> <<>>,
     sent |-> <<>>, outcome |-> NoOutcome]

NoThreads == [t \in Threads |-> IdleThread]

\* the credentials a caller passes or the environment holds
Credentials == {PyNone, PyStr(<<>>), PyStr(<<"k", "1">>), PyStr(<<"k", "2">>)}

\* the state after GlassnodeClient(api_key="k1")
Init ==
    /\ pc = "idle"
    /\ call = NoCall
    /\ gets = <<>>
    /\ nGets = 0
    /\ outcome = NoOutcome
    /\ client = Constructed(GlassnodeClient(PyStr(<<"k", "1">>), default_base_url, PyNone))
    /\ env = PyNone
    /\ history = <<>>
    /\ threads = NoThreads

\* a call that ends without reaching the transport
Finish(c, o) ==
    /\ call' = c
    /\ outcome' = o
    /\ pc' = IF Raised(o) THEN "raised" ELSE "returned"
    /\ UNCHANGED <<gets, nGets, client, env, history, threads>>

\* Get with the bug of reading the environment variable at every request
Get_RereadEnv(c, endpoint, params, kwargs) ==
    /\ call' = c
    /\ gets' = Append(gets, Sent(Request(client.base_url, endpoint, params, kwargs),
                                 session_headers(resolve(env, client.api_key))))
    /\ nGets' = nGets + 1
    /\ pc' = "inflight"
    /\ outcome' = NoOutcome
    /\ UNCHANGED <<client, env, history, threads>>

\* session.get(url, params=final_params, timeout=self.timeout), line 120
Get(c, endpoint, params, kwargs) ==
    /\ call' = c
    /\ gets' = Append(gets, Sent(Request(client.base_url, endpoint, params, kwargs),
                                 client.headers))
    /\ nGets' = nGets + 1
    /\ pc' = "inflight"
    /\ outcome' = NoOutcome
    /\ UNCHANGED <<client, env, history, threads>>

\* client._format_timestamp(timestamp)
call_format_timestamp ==
    /\ pc = "idle"
    /\ \E timestamp \in TimeInputs, tz \in LocalOffsets :
         Finish([NoCall EXCEPT !.method = "_format_timestamp", !.tz = tz,
                               !.since = timestamp],
                _format_timestamp(timestamp, tz))

\* client._validate_bulk_timerange(since, until, interval)
call_validate_bulk_timerange ==
    /\ pc = "idle"
    /\ \E since \in TimeInputs, until \in TimeInputs, interval \in Intervals,
          tz \in LocalOffsets :
         Finish([NoCall EXCEPT !.method = "_validate_bulk_timerange", !.tz = tz,
                               !.since = since, !.until = until,
                               !.interval = interval],
                _validate_bulk_timerange(since, until, interval, tz))

\* client._process_bulk_response(data)
call_process_bulk_response ==
    /\ pc = "idle"
    /\ \E data \in Bodies :
         Finish([NoCall EXCEPT !.method = "_process_bulk_response", !.data = data],
                _process_bulk_response(data))

\* the mapping object the caller passed as params, after lines 101-104:
\* params.update(kwargs) is applied to that object itself (for None a new
\* mapping is made and the caller has none)
UpdatedParams(params, kwargs) ==
    IF params.t = "none" THEN PyNone ELSE PyDict(MergeParams(params, kwargs))

\* client._make_request(endpoint, params, **kwargs), up to the GET; params
\* is the caller's mapping as it was at the call, caller_params the same
\* object as _make_request leaves it
call_make_request ==
    /\ pc = "idle"
    /\ nGets < MaxGets
    /\ \E endpoint \in Endpoints, params \in ParamSets, kwargs \in ParamKwargs :
         Get([NoCall EXCEPT !.method = "_make_request", !.endpoint = endpoint,
                            !.params = params, !.kwargs = kwargs,
                            !.caller_params = UpdatedParams(params, kwargs)],
             endpoint, params, kwargs)

\* a call up to the GET, or to the exception raised before it
Start(c, endpoint, params) ==
    IF Raised(params) THEN Finish(c, params)
    ELSE Get(c, endpoint, params.val, <<>>)

StartGetData(c) == Start(c, c.endpoint, get_data_params(c, c.tz))

\* StartGetBulkData with the bug of validating the timerange after the
\* request was sent
StartLate(c, endpoint, params) ==
    IF Raised(params)
    THEN /\ call' = c
         /\ outcome' = params
         /\ pc' = "raised"
         /\ gets' = Append(gets, Sent(Request(client.base_url, endpoint, PyNone, <<>>),
                                      client.headers))
         /\ nGets' = nGets + 1
         /\ UNCHANGED <<client, env, history, threads>>
    ELSE Get(c, endpoint, params.val, <<>>)

StartGetBulkData_ValidateLate(c) ==
    StartLate(c, bulk_endpoint(c.endpoint), get_bulk_data_params(c, c.tz))

StartGetBulkData(c) == Start(c, bulk_endpoint(c.endpoint), get_bulk_data_params(c, c.tz))

\* client.get_data(endpoint, asset, since, until, interval, format, currency, **kwargs)
call_get_data ==
    /\ pc = "idle"
    /\ nGets < MaxGets
    /\ \E endpoint \in Endpoints, since \in CallTimes, until \in CallTimes,
          interval \in CallIntervals, format \in {JSON, CSV},
          kwargs \in KwargSets, tz \in LocalOffsets :
         StartGetData([NoCall EXCEPT !.method = "get_data", !.tz = tz,
                                     !.endpoint = endpoint, !.asset = BTC,
                                     !.since = since, !.until = until,
                                     !.interval = interval, !.format = format,
                                     !.kwargs = kwargs])

\* client.get_bulk_data(endpoint, assets, since, until, interval, currency, **kwargs)
call_get_bulk_data ==
    /\ pc = "idle"
    /\ nGets < MaxGets
    /\ \E endpoint \in Endpoints, assets \in AssetLists, since \in CallTimes,
          until \in CallTimes, interval \in CallIntervals,
          kwargs \in KwargSets, tz \in LocalOffsets :
         StartGetBulkData([NoCall EXCEPT !.method = "get_bulk_data", !.tz = tz,
                                         !.endpoint = endpoint, !.assets = assets,
                                         !.since = since, !.until = until,
                                         !.interval = interval, !.format = JSON,
                                         !.kwargs = kwargs])

\* client.market.price_bulk(assets, **kwargs): MarketEndpoints.price_bulk through
\* BaseEndpoints._get_bulk_data, with since/until/interval among the keywords
\* (interval left to its default "24h" when not given)
call_price_bulk ==
    /\ pc = "idle"
    /\ nGets < MaxGets
    /\ \E assets \in AssetLists, since \in CallTimes, until \in CallTimes,
          interval \in CallIntervals \ {PyNone}, tz \in LocalOffsets :
         StartGetBulkData([NoCall EXCEPT !.method = "price_bulk", !.tz = tz,
                                         !.endpoint = full_endpoint(market_base_path,
                                             <<"p", "r", "i", "c", "e", "_", "u", "s", "d", "_", "c", "l", "o", "s", "e">>),
                                         !.assets = assets,
                                         !.since = since, !.until = until,
                                         !.interval = interval, !.format = JSON])

\* client.market.price(asset, **kwargs): MarketEndpoints.price through
\* BaseEndpoints._get_data, with since/until/interval among the keywords
\* (interval None and format "json" by default)
call_price ==
    /\ pc = "idle"
    /\ nGets < MaxGets
    /\ \E since \in CallTimes, until \in CallTimes,
          interval \in CallIntervals, tz \in LocalOffsets :
         StartGetData([NoCall EXCEPT !.method = "price", !.tz = tz,
                                     !.endpoint = full_endpoint(market_base_path,
                                         <<"p", "r", "i", "c", "e", "_", "u", "s", "d", "_", "c", "l", "o", "s", "e">>),
                                     !.asset = BTC,
                                     !.since = since, !.until = until,
                                     !.interval = interval, !.format = JSON])

\* what the method makes of the result of _make_request
Result(method, format, data) ==
    IF Raised(data) THEN data
    ELSE IF method = "_make_request" THEN data
    ELSE IF method \in {"get_data", "price"} THEN get_data_result(format, data.val)
    ELSE _process_bulk_response(data.val)

\* Complete with the bug of a second attempt after a failed request
Complete_Retry(reply, data, o) ==
    /\ outcome' = o
    /\ pc' = IF Raised(o) THEN "raised" ELSE "returned"
    /\ call' = [call EXCEPT !.reply = reply, !.data = data.val]
    /\ gets' = IF reply.status = "ok" THEN gets ELSE Append(gets, gets[1])
    /\ nGets' = IF reply.status = "ok" THEN nGets ELSE nGets + 1
    /\ UNCHANGED <<client, env, history, threads>>

Complete(reply, data, o) ==
    /\ outcome' = o
    /\ pc' = IF Raised(o) THEN "raised" ELSE "returned"
    /\ call' = [call EXCEPT !.reply = reply, !.data = data.val]
    /\ UNCHANGED <<gets, nGets, client, env, history, threads>>

\* the rest of the call once the transport answers: _make_request lines
\* 120-126, then get_data lines 167-174 or get_bulk_data line 238
Respond ==
    /\ pc = "inflight"
    /\ \E reply \in Replies :
         Complete(reply, _make_request_result(reply),
                  Result(call.method, call.format, _make_request_result(reply)))

\* the caller keeps the arguments of a call that reached the transport, to
\* make the identical call once more; the transport's record of the finished
\* call is kept in history
Repeat ==
    /\ pc \in {"returned", "raised"}
    /\ gets # <<>>
    /\ nGets < MaxGets
    /\ pc' = "again"
    /\ call' = [call EXCEPT !.reply = NoReply, !.data = PyNone]
    /\ history' = history \o gets
    /\ gets' = <<>>
    /\ outcome' = NoOutcome
    /\ UNCHANGED <<nGets, client, env, threads>>

\* StartCall with the bug of a cache: a call already made is not sent again
StartCall_Cached(c) ==
    IF history # <<>> THEN Finish(c, Return(PyNone))
    ELSE CASE c.method = "_make_request" -> Get(c, c.endpoint, c.params, c.kwargs)
           [] c.method \in {"get_data", "price"} -> StartGetData(c)
           [] OTHER -> StartGetBulkData(c)

\* the method of the call, run on its arguments up to the GET
StartCall(c) ==
    CASE c.method = "_make_request" -> Get(c, c.endpoint, c.params, c.kwargs)
      [] c.method \in {"get_data", "price"} -> StartGetData(c)
      [] OTHER -> StartGetBulkData(c)

\* the same method called again with the same arguments
call_again ==
    /\ pc = "again"
    /\ StartCall(call)

\* the caller takes the result; the next call starts from here
Done ==
    /\ pc \in {"returned", "raised"}
    /\ pc' = "idle"
    /\ call' = NoCall
    /\ gets' = <<>>
    /\ outcome' = NoOutcome
    /\ history' = <<>>
    /\ UNCHANGED <<nGets, client, env, threads>>

\* GlassnodeClient(api_key) returns the client or raises
Construct(c, o) ==
    /\ call' = c
    /\ outcome' = o
    /\ client' = IF Raised(o) THEN NoClient ELSE Constructed(o)
    /\ pc' = IF Raised(o) THEN "new" ELSE "idle"
    /\ UNCHANGED <<gets, nGets, env, history, threads>>

construct ==
    /\ pc = "new"
    /\ \E api_key \in Credentials :
         Construct([NoCall EXCEPT !.method = "__init__", !.api_key = api_key,
                                  !.base_url = default_base_url, !.environ = env],
                   GlassnodeClient(api_key, default_base_url, env))

\* the process changes the GLASSNODE_API_KEY environment variable
setenv ==
    /\ \E value \in Credentials : value # env /\ env' = value
    /\ UNCHANGED <<pc, call, gets, nGets, outcome, client, history, threads>>

Next ==
    \/ call_format_timestamp
    \/ call_validate_bulk_timerange
    \/ call_process_bulk_response
    \/ call_make_request
    \/ call_get_data
    \/ call_get_bulk_data
    \/ call_price_bulk
    \/ call_price
    \/ Repeat
    \/ call_again
    \/ Respond
    \/ Done

Spec == Init /\ [][Next]_vars

\* the client's life from before its construction, under a changing environment
InitCredential ==
    /\ pc = "new"
    /\ call = NoCall
    /\ gets = <<>>
    /\ nGets = 0
    /\ outcome = NoOutcome
    /\ client = NoClient
    /\ env \in Credentials
    /\ history = <<>>
    /\ threads = NoThreads

NextCredential ==
    \/ construct
    \/ setenv
    \/ call_make_request
    \/ Respond
    \/ Done

SpecCredential == InitCredential /\ [][NextCredential]_vars

\* ------------------------------------------------------------ two callers

\* the base_url arguments a client is constructed with
BaseUrls ==
    { default_base_url, default_base_url \o <<"/">>, default_base_url \o <<"/", "/">> }

\* the calls the two callers make
ThreadCalls ==
    { [NoCall EXCEPT !.method = "get_data", !.endpoint = endpoint, !.asset = BTC,
                     !.since = since, !.format = JSON]
        : endpoint \in Endpoints, since \in {PyNone, PyInt(Day(1))} }
    \cup
    { [NoCall EXCEPT !.method = "get_bulk_data", !.endpoint = endpoint,
                     !.assets = PyList(<<BTC, ETH>>), !.since = PyInt(Day(1)),
                     !.until = until, !.interval = PyStr(<<"2", "4", "h">>),
                     !.format = JSON]
        : endpoint \in Endpoints, until \in {PyInt(Day(11)), PyInt(Day(32)), PyStr(<<"n", "o", "p", "e">>)} }
    \cup
    { [NoCall EXCEPT !.method = "price", !.asset = BTC, !.format = JSON,
                     !.endpoint = full_endpoint(market_base_path,
                         <<"p", "r", "i", "c", "e", "_", "u", "s", "d", "_", "c", "l", "o", "s", "e">>)],
      [NoCall EXCEPT !.method = "price_bulk", !.format = JSON,
                     !.interval = PyStr(<<"2", "4", "h">>),
                     !.endpoint = full_endpoint(market_base_path,
                         <<"p", "r", "i", "c", "e", "_", "u", "s", "d", "_", "c", "l", "o", "s", "e">>)],
      [NoCall EXCEPT !.method = "_make_request", !.endpoint = <<"/", "/", "x">>,
                     !.params = PyDict(<<<<"a", BTC>>>>),
                     !.kwargs = <<<<"i", PyStr(<<"1", "h">>)>>>>] }

\* what the transport answers the two callers
ThreadReplies ==
    { Reply("Timeout", FALSE, "", PyNone),
      Reply("ok", FALSE, "RequestException", PyNone),
      Reply("ok", TRUE, "", PyList(<<PyDict(<<<<"t", PyInt(1000)>>, <<"v", PyInt(5)>>>>)>>)),
      Reply("ok", TRUE, "",
            BulkBody(<<TimePoint(PyInt(1000),
                                 PyList(<<PyDict(<<<<"a", BTC>>, <<"v", PyInt(1)>>>>)>>))>>)) }

\* the parameters the method builds before it reaches _make_request (get_data
\* lines 155-163, get_bulk_data lines 215-231), or the mapping the caller
\* passed to _make_request
BuiltParams(c) ==
    CASE c.method = "_make_request" -> Return(c.params)
      [] c.method \in {"get_bulk_data", "price_bulk"} -> get_bulk_data_params(c, c.tz)
      [] OTHER -> get_data_params(c, c.tz)

\* the endpoint the method hands to _make_request (lines 165 and 234-235)
RequestedEndpoint(c) ==
    IF c.method \in {"get_bulk_data", "price_bulk"} THEN bulk_endpoint(c.endpoint)
    ELSE c.endpoint

\* LocalParams with the bug of the parameters being kept in a field of the
\* client, where the caller that wrote last wins
LocalParams_Shared(t) ==
    IF threads[3 - t].params # NoOutcome THEN threads[3 - t].params
    ELSE threads[t].params

\* params is a local of the method's frame (lines 155 and 218) and an
\* argument of _make_request (line 81)
LocalParams(t) == threads[t].params

\* the caller enters the method, which builds its parameters or raises
ThreadCall(t, c, params) ==
    /\ threads' = [threads EXCEPT ![t] =
                     IF Raised(params)
                     THEN [IdleThread EXCEPT !.pc = "done", !.call = c, !.outcome = params]
                     ELSE [IdleThread EXCEPT !.pc = "built", !.call = c, !.params = params]]
    /\ UNCHANGED <<pc, call, gets, nGets, outcome, client, env, history>>

thread_call ==
    \E t \in Threads :
        /\ threads[t].pc = "idle"
        /\ \E c \in ThreadCalls : ThreadCall(t, c, BuiltParams(c))

\* _make_request, lines 101-117: the final parameters and the URL
thread_make_request ==
    \E t \in Threads :
        /\ threads[t].pc = "built"
        /\ threads' = [threads EXCEPT ![t].pc = "ready",
                                      ![t].request =
                                          Request(client.base_url,
                                                  RequestedEndpoint(threads[t].call),
                                                  LocalParams(t).val,
                                                  IF threads[t].call.method = "_make_request"
                                                  THEN threads[t].call.kwargs ELSE <<>>)]
        /\ UNCHANGED <<pc, call, gets, nGets, outcome, client, env, history>>

\* session.get, line 120, on the session the two callers share
thread_get ==
    \E t \in Threads :
        /\ threads[t].pc = "ready"
        /\ threads' = [threads EXCEPT ![t].pc = "inflight",
                                      ![t].sent = Sent(threads[t].request, client.headers)]
        /\ UNCHANGED <<pc, call, gets, nGets, outcome, client, env, history>>

\* the transport answers the caller's request; lines 121-126, then get_data
\* lines 167-174 or get_bulk_data line 238
thread_respond ==
    \E t \in Threads :
        /\ threads[t].pc = "inflight"
        /\ \E reply \in ThreadReplies :
             threads' = [threads EXCEPT ![t].pc = "done",
                                        ![t].call.reply = reply,
                                        ![t].outcome =
                                            Result(threads[t].call.method,
                                                   threads[t].call.format,
                                                   _make_request_result(reply))]
        /\ UNCHANGED <<pc, call, gets, nGets, outcome, client, env, history>>

\* the caller takes the result and leaves the call
thread_return ==
    \E t \in Threads :
        /\ threads[t].pc = "done"
        /\ threads' = [threads EXCEPT ![t] = IdleThread]
        /\ UNCHANGED <<pc, call, gets, nGets, outcome, client, env, history>>

\* the state after GlassnodeClient(api_key="k1", base_url=u), the client to
\* be used by two callers at once
InitConcurrent ==
    /\ pc = "idle"
    /\ \E u \in BaseUrls :
         /\ call = [NoCall EXCEPT !.method = "__init__", !.api_key = PyStr(<<"k", "1">>),
                                  !.base_url = u]
         /\ client = Constructed(GlassnodeClient(PyStr(<<"k", "1">>), u, PyNone))
    /\ gets = <<>>
    /\ nGets = 0
    /\ outcome = NoOutcome
    /\ env = PyNone
    /\ history = <<>>
    /\ threads = NoThreads

NextConcurrent ==
    \/ thread_call
    \/ thread_make_request
    \/ thread_get
    \/ thread_respond
    \/ thread_return

SpecConcurrent == InitConcurrent /\ [][NextConcurrent]_vars

\* ------------------------------------------------------------ properties

BulkMethods == {"get_bulk_data", "price_bulk"}

Finished == pc \in {"returned", "raised"}

TimerangeTooLarge(o) ==
    Raised(o) /\ o.exc = "ValueError" /\ o.msg = "Timerange too large"

\* the error kinds of the specification's taxonomy
ErrorKind(o) ==
    CASE o.exc = "ValueError" /\ o.msg = "Timerange too large" -> "TimerangeTooLarge"
      [] o.exc = "ValueError" /\ o.msg = "Unsupported timestamp format" -> "InvalidTimestamp"
      [] o.exc = "ValueError" /\ o.msg = "time data does not match format '%Y-%m-%d'"
           -> "InvalidTimestamp"
      [] o.exc = "ValueError" /\ o.msg = "API key is required" -> "MissingCredential"
      [] o.exc = "GlassnodeAPIError" /\ o.msg = "API request failed" -> "ApiRequestFailed"
      [] o.exc = "GlassnodeAPIError" /\ o.msg = "Failed to parse JSON response"
           -> "ApiResponseInvalid"
      [] o.exc = "GlassnodeAPIError" /\ o.msg = "Invalid bulk response format"
           -> "InvalidBulkResponse"
      [] OTHER -> "Other"

ErrorKinds ==
    {"MissingCredential", "InvalidTimestamp", "TimerangeTooLarge", "ApiRequestFailed",
     "ApiResponseInvalid", "InvalidBulkResponse"}

\* a finished call of the timerange validator, on its own
Validated == call.method = "_validate_bulk_timerange" /\ Finished

InTable(interval) == interval.t = "str" /\ interval.s \in DOMAIN constraints

\* normalize(x) is defined; the span normalize(until) - normalize(since)
NormOk(x, tz) == ~Raised(_format_timestamp(x, tz))

Span(c) ==
    _format_timestamp(c.until, c.tz).val.i - _format_timestamp(c.since, c.tz).val.i

HasSpan(c) ==
    /\ c.since # PyNone /\ c.until # PyNone
    /\ NormOk(c.since, c.tz) /\ NormOk(c.until, c.tz)

\* C1: a bulk call (get_bulk_data or a *_bulk category method) that fails with
\* the timerange-too-large error has had no GET recorded by the transport.
C1_TimerangeBeforeGet ==
    (call.method \in BulkMethods /\ pc = "raised" /\ TimerangeTooLarge(outcome))
        => gets = <<>>

C1_Witness ==
    /\ call.method = "price_bulk" /\ pc = "raised" /\ TimerangeTooLarge(outcome)
    /\ call.assets = PyList(<<BTC, ETH>>)
    /\ call.interval = PyStr(<<"2", "4", "h">>)
    /\ gets = <<>>

\* C2 (as stated): for every interval of the cap table and every pair of
\* since/until inputs that are not absent (the integer 0 included) whose span
\* exceeds the cap, the validator fails with the timerange-too-large error.
C2_Original ==
    (/\ Validated /\ InTable(call.interval) /\ HasSpan(call)
     /\ Span(call) > constraints[call.interval.s] * SecondsPerDay)
        => TimerangeTooLarge(outcome)

\* C3: for every interval of the cap table and every since/until pair whose
\* span is at most the cap (a span equal to the cap included), the validator
\* returns without raising.
C3_WithinCapSucceeds ==
    (/\ Validated /\ InTable(call.interval) /\ HasSpan(call)
     /\ Span(call) <= constraints[call.interval.s] * SecondsPerDay)
        => outcome = Return(PyNone)

C3_Witness ==
    /\ Validated
    /\ call.interval = PyStr(<<"2", "4", "h">>)
    /\ call.since = PyInt(Day(1)) /\ call.until = PyInt(Day(32))
    /\ outcome = Return(PyNone)

\* C4: for an interval that is no key of the cap table (an absent interval
\* included) the validator enforces no cap: it never raises the
\* timerange-too-large error, and returns for every since/until pair that is
\* absent or accepted by the normalizer, however large the span.
C4_UnknownIntervalUnconstrained ==
    (Validated /\ ~InTable(call.interval))
        => /\ ~TimerangeTooLarge(outcome)
           /\ ((/\ call.since = PyNone \/ NormOk(call.since, call.tz)
                /\ call.until = PyNone \/ NormOk(call.until, call.tz))
                 => outcome = Return(PyNone))

C4_Witness ==
    /\ Validated
    /\ call.interval = PyNone
    /\ call.since = PyInt(0 - SecondsPerDay) /\ call.until = PyInt(Day(94))
    /\ outcome = Return(PyNone)

\* the mapping _make_request encodes: its params merged with its keywords
Merged(c) ==
    CASE c.method = "_make_request" -> MergeParams(c.params, c.kwargs)
      [] c.method \in {"get_data", "price"} -> get_data_params(c, c.tz).val.d
      [] OTHER -> get_bulk_data_params(c, c.tz).val.d

\* the values a sequence of pairs carries under `key`, in order
ValuesUnder(pairs, key) ==
    [k \in 1..Len(SelectSeq(pairs, LAMBDA pr : pr[1] = key)) |->
        SelectSeq(pairs, LAMBDA pr : pr[1] = key)[k][2]]

\* the values the reference encoding emits for one value of the mapping
Emitted(value) ==
    IF value.t = "none" THEN <<>>
    ELSE IF value.t = "list" THEN value.l
    ELSE <<value>>

ReferenceEncoding(items, pairs) ==
    /\ \A k \in 1..Len(pairs) : pairs[k][2].t # "none" /\ DictHas(items, pairs[k][1])
    /\ \A k \in 1..Len(items) : ValuesUnder(pairs, items[k][1]) = Emitted(items[k][2])
    /\ \A x, y \in 1..Len(pairs) :
         x < y => DictIndex(items, pairs[x][1]) <= DictIndex(items, pairs[y][1])

\* C5: the pairs of the GET handed to the transport are the reference encoding of the
\* parameter mapping: the keys in insertion order, a None value skipped, a list
\* value as one pair per element in list order, any other value as one pair;
\* no pair carries None.
C5_ParamsEncoded ==
    (pc = "inflight" /\ Len(gets) = 1) =>
        LET items == Merged(call)
        IN ReferenceEncoding(items, gets[1].params)

C5_Witness ==
    /\ call.method = "_make_request"
    /\ call.params = PyDict(<<<<"a", PyList(<<BTC, ETH>>)>>, <<"s", PyInt(100)>>>>)
    /\ call.kwargs = <<>>
    /\ pc = "inflight" /\ Len(gets) = 1
    /\ gets[1].params = <<<<"a", BTC>>, <<"a", ETH>>, <<"s", PyInt(100)>>>>

\* a body has been through _process_bulk_response
BulkProcessed ==
    /\ Finished
    /\ \/ call.method = "_process_bulk_response"
       \/ call.method \in BulkMethods /\ call.reply.status = "ok" /\ call.reply.json

\* {"data": [{"t": <int>, "bulk": [<mapping>, ...]}, ...]}
WellFormedBulk(data) ==
    /\ data.t = "dict" /\ DictHas(data.d, "data") /\ DictGet(data.d, "data").t = "list"
    /\ \A k \in 1..Len(DictGet(data.d, "data").l) :
         LET point == DictGet(data.d, "data").l[k]
         IN /\ point.t = "dict"
            /\ DictHas(point.d, "t") /\ DictGet(point.d, "t").t = "int"
            /\ DictHas(point.d, "bulk") /\ DictGet(point.d, "bulk").t = "list"
            /\ \A e \in 1..Len(DictGet(point.d, "bulk").l) :
                 DictGet(point.d, "bulk").l[e].t = "dict"

\* the (time point, bulk entry) pairs of a well-formed body, as received
RECURSIVE FlatEntries(_)
FlatEntries(points) ==
    IF points = <<>> THEN <<>>
    ELSE [k \in 1..Len(DictGet(Head(points).d, "bulk").l) |->
             [t |-> DictGet(Head(points).d, "t"),
              entry |-> DictGet(Head(points).d, "bulk").l[k]]]
         \o FlatEntries(Tail(points))

Flat(data) == FlatEntries(DictGet(data.d, "data").l)

\* C6: for a well-formed bulk body the table has one row per (time point, bulk
\* entry) pair, in the order received: as many rows as the bulk lists have
\* entries, the k-th row carrying the fields of the k-th entry and (when the
\* entry has no `t` of its own) the time of its time point.
C6_OneRowPerPairInOrder ==
    (BulkProcessed /\ WellFormedBulk(call.data))
        => /\ outcome.kind = "DataFrame"
           /\ Len(outcome.df.rows) = Len(Flat(call.data))
           /\ \A k \in 1..Len(Flat(call.data)) :
                /\ outcome.df.rows[k] = DictWithout(Flat(call.data)[k].entry.d, "t")
                /\ ~DictHas(Flat(call.data)[k].entry.d, "t")
                     => outcome.df.index[k] = PdTimestamp(Flat(call.data)[k].t.i)

C6_Witness ==
    /\ call.method = "_process_bulk_response" /\ Finished
    /\ WellFormedBulk(call.data)
    /\ Len(DictGet(call.data.d, "data").l) = 2
    /\ Len(Flat(call.data)) = 3
    /\ Flat(call.data)[1].t # Flat(call.data)[3].t
    /\ Flat(call.data)[1].entry # Flat(call.data)[2].entry
    /\ outcome.kind = "DataFrame" /\ Len(outcome.df.rows) = 3

\* C7 (as stated): every row carries the time of its enclosing time point,
\* also when the entry has a `t` field of its own.
C7_Original ==
    (BulkProcessed /\ WellFormedBulk(call.data))
        => /\ outcome.kind = "DataFrame"
           /\ \A k \in 1..Len(Flat(call.data)) :
                outcome.df.index[k] = PdTimestamp(Flat(call.data)[k].t.i)

\* {"data": [...]} whose time points (each with its `t`) have an empty bulk
\* list or none
NoBulkEntries(data) ==
    /\ data.t = "dict" /\ DictHas(data.d, "data") /\ DictGet(data.d, "data").t = "list"
    /\ \A k \in 1..Len(DictGet(data.d, "data").l) :
         LET point == DictGet(data.d, "data").l[k]
         IN /\ point.t = "dict"
            /\ DictHas(point.d, "t")
            /\ DictHas(point.d, "bulk") => DictGet(point.d, "bulk") = PyList(<<>>)

C9_InvalidBulkResponse ==
    (BulkProcessed /\ (call.data.t # "dict" \/ ~DictHas(call.data.d, "data")))
        => outcome = Raise("GlassnodeAPIError", "Invalid bulk response format", <<>>)

C9_Witness ==
    /\ call.method = "get_bulk_data" /\ BulkProcessed
    /\ call.data = PyDict(<<>>)
    /\ outcome = Raise("GlassnodeAPIError", "Invalid bulk response format", <<>>)

\* C10 (as stated): a get_data or get_bulk_data call (or a category method
\* delegating to them) returns, or raises an error of one of the six kinds.
C10_Original ==
    (call.method \in {"get_data", "price"} \cup BulkMethods /\ Finished /\ Raised(outcome))
        => ErrorKind(outcome) \in ErrorKinds

\* the transport has answered the call's GET
Answered == Finished /\ call.reply # NoReply

\* C11 (as stated): a transport-level failure (connection failure, timeout,
\* non-2xx status) gives the request-failed error, and a received body that is
\* not valid JSON gives the response-invalid error, never the request-failed one.
C11_Original ==
    Answered =>
        /\ call.reply.status # "ok" => ErrorKind(outcome) = "ApiRequestFailed"
        /\ (call.reply.status = "ok" /\ ~call.reply.json)
             => ErrorKind(outcome) = "ApiResponseInvalid"

\* the methods of the endpoint categories
CategoryMethods == {"price", "price_bulk"}

\* the parameters the call builds, or the exception raised while building them
ParamsOf(c) ==
    IF c.method \in BulkMethods THEN get_bulk_data_params(c, c.tz)
    ELSE get_data_params(c, c.tz)

\* C12: a call records at most one GET; a category method call whose
\* timestamps normalize and whose timerange validates records exactly one
\* (and none otherwise); a failed attempt ends the call with its error, with
\* that one GET and no second attempt.
C12_ExactlyOneGet ==
    /\ Len(gets) <= 1
    /\ (call.method \in CategoryMethods /\ pc \in {"inflight", "returned", "raised"})
         => (Len(gets) = 1 <=> ~Raised(ParamsOf(call)))
    /\ (Answered /\ call.reply.status # "ok")
         => Len(gets) = 1 /\ pc = "raised"

C12_Witness ==
    /\ call.method = "price" /\ Answered
    /\ call.reply.status = "Timeout"
    /\ pc = "raised"
    /\ Len(gets) = 1

\* C13: when a call is made again with identical arguments, the transport
\* records one more GET with the same URL and parameters as each earlier one
\* (k calls, k identical GETs), and the result of every call is made from the
\* reply to its own GET.
C13_NoCaching ==
    /\ (history # <<>> /\ pc \in {"inflight", "returned", "raised"})
         => /\ Len(gets) = 1
            /\ \A k \in 1..Len(history) : history[k] = gets[1]
    /\ Answered
         => outcome = Result(call.method, call.format, _make_request_result(call.reply))

C13_Witness ==
    /\ call.method = "get_data" /\ Answered
    /\ Len(history) = 1 /\ Len(gets) = 1
    /\ history[1] = gets[1]
    /\ nGets = 2
    /\ outcome.kind = "DataFrame"

ApiKeyHeader(request) == DictGet(request.headers, "X-Api-Key")

\* C14: construction takes the credential from the explicit argument when it
\* is given and from the environment variable otherwise; when neither gives
\* one it fails with the missing-credential error and leaves no client. Without
\* a client no GET is ever issued, and every GET carries a credential.
C14_CredentialResolved ==
    /\ call.method = "__init__"
         => IF Truthy(call.api_key)
            THEN pc = "idle" /\ client.api_key = call.api_key
            ELSE IF Truthy(call.environ)
            THEN pc = "idle" /\ client.api_key = call.environ
            ELSE /\ pc = "new" /\ client = NoClient
                 /\ Raised(outcome) /\ ErrorKind(outcome) = "MissingCredential"
    /\ client = NoClient => pc = "new" /\ nGets = 0 /\ gets = <<>>
    /\ \A k \in 1..Len(gets) : Truthy(ApiKeyHeader(gets[k]))

C14_Witness ==
    /\ call.method = "__init__"
    /\ call.api_key = PyNone /\ call.environ = PyStr(<<>>)
    /\ env = PyStr(<<"k", "2">>)
    /\ Raised(outcome) /\ ErrorKind(outcome) = "MissingCredential"
    /\ client = NoClient /\ pc = "new"

\* C15: once constructed the client's credential never changes, whatever
\* happens to the environment variable, and every GET the transport records
\* carries it in its X-Api-Key header.
C15_CredentialFixed ==
    [][/\ client # NoClient => client' = client
       /\ client' # NoClient =>
            /\ ApiKeyHeader(client') = client'.api_key
            /\ \A k \in 1..Len(gets') : ApiKeyHeader(gets'[k]) = client'.api_key]_vars

C15_Witness ==
    /\ call.method = "_make_request" /\ pc = "inflight"
    /\ client.api_key = PyStr(<<"k", "1">>)
    /\ env = PyStr(<<"k", "2">>)
    /\ nGets = 2
    /\ Len(gets) = 1 /\ ApiKeyHeader(gets[1]) = PyStr(<<"k", "1">>)

RequestMethods == {"get_data", "price"} \cup BulkMethods

\* a time input that is given and that the normalizer rejects
Unrecognized(x, tz) == x # PyNone /\ Raised(_format_timestamp(x, tz))

\* C16 (as stated): a get_data or get_bulk_data call with an unrecognized time
\* input (a string that does not parse, the empty string included, or a value
\* of another type) fails with the invalid-timestamp error and records no GET.
C16_Original ==
    (/\ call.method \in RequestMethods /\ pc \in {"inflight", "returned", "raised"}
     /\ Unrecognized(call.since, call.tz) \/ Unrecognized(call.until, call.tz))
        => /\ pc = "raised" /\ ErrorKind(outcome) = "InvalidTimestamp"
           /\ gets = <<>>

\* a finished call of the normalizer, on its own
Normalized == call.method = "_format_timestamp" /\ Finished

\* the two parses of the string handed to the normalizer
IsoOf(c) == fromisoformat(StrReplace(c.since.s, "Z", <<"+", "0", "0", ":", "0", "0">>))

YmdOf(c) == strptime_Ymd(c.since.s)

\* C17: for a string the normalizer returns the epoch seconds of the ISO-8601
\* parse (a `Z` read as +00:00) when that parse succeeds, those of the strict
\* YYYY-MM-DD parse when only that one succeeds, and fails with the
\* invalid-timestamp error when both fail; a value that is no string,
\* date/time object or integer always fails with the invalid-timestamp error.
C17_ParseOrder ==
    Normalized =>
        IF call.since.t = "str"
        THEN IF IsoOf(call).ok
             THEN outcome = Return(PyInt(Timestamp(IsoOf(call), call.tz)))
             ELSE IF YmdOf(call).ok
             THEN outcome = Return(PyInt(Timestamp(YmdOf(call), call.tz)))
             ELSE Raised(outcome) /\ ErrorKind(outcome) = "InvalidTimestamp"
        ELSE IF call.since.t \in {"datetime", "int"}
        THEN ~Raised(outcome)
        ELSE Raised(outcome) /\ ErrorKind(outcome) = "InvalidTimestamp"

C17_Witness ==
    /\ Normalized
    /\ call.since = PyStr(<<"1", "9", "7", "0", "-", "1", "-", "2">>)
    /\ call.tz = 3600
    /\ ~IsoOf(call).ok /\ YmdOf(call).ok
    /\ outcome = Return(PyInt(Day(1) - 3600))

\* C18: the normalizer returns an integer input unchanged, and normalizing
\* the result of a normalization gives that result again.
C18_Idempotent ==
    (Normalized /\ pc = "returned")
        => /\ outcome.val.t = "int"
           /\ _format_timestamp(outcome.val, call.tz) = outcome
           /\ call.since.t = "int" => outcome = Return(call.since)

C18_Witness ==
    /\ Normalized /\ pc = "returned"
    /\ call.since = PyInt(Day(10) + 1)
    /\ outcome = Return(PyInt(Day(10) + 1))
    /\ _format_timestamp(outcome.val, call.tz) = outcome

\* the values a request carries under `s` and `u`
TimeValues(request) == ValuesUnder(request.params, "s") \o ValuesUnder(request.params, "u")

\* C19 (as stated): the normalizer's result for every accepted input, and every
\* `s` or `u` value of a request, is an integer greater than or equal to 0.
C19_Original ==
    /\ (Normalized /\ pc = "returned")
         => outcome.val.t = "int" /\ outcome.val.i >= 0
    /\ \A k \in 1..Len(gets) : \A j \in 1..Len(TimeValues(gets[k])) :
         TimeValues(gets[k])[j].t = "int" /\ TimeValues(gets[k])[j].i >= 0

\* C20: when the parsed body of a get_data call is not a list, get_data
\* returns that body as it is, and no table.
C20_NonListPassThrough ==
    (/\ call.method \in {"get_data", "price"} /\ Answered
     /\ call.reply.status = "ok" /\ call.reply.json
     /\ call.reply.body.t # "list")
        => outcome = Return(call.reply.body)

C20_Witness ==
    /\ call.method = "get_data" /\ Answered
    /\ call.format = JSON
    /\ call.reply = Reply("ok", TRUE, "", PyDict(<<<<"data", PyInt(5)>>>>))
    /\ outcome = Return(PyDict(<<<<"data", PyInt(5)>>>>))

\* a json-format get_data call answered with a JSON body
JsonAnswered ==
    /\ call.method \in {"get_data", "price"} /\ Answered
    /\ call.format = JSON
    /\ call.reply.status = "ok" /\ call.reply.json

\* a list of row mappings that all carry an integer `t`, or that all carry none
RowsWithT(body) ==
    /\ body.t = "list" /\ body.l # <<>>
    /\ \A k \in 1..Len(body.l) :
         /\ body.l[k].t = "dict"
         /\ DictHas(body.l[k].d, "t") /\ DictGet(body.l[k].d, "t").t = "int"

RowsWithoutT(body) ==
    /\ body.t = "list"
    /\ \A k \in 1..Len(body.l) : body.l[k].t = "dict" /\ ~DictHas(body.l[k].d, "t")

\* C21: a json-format get_data call answered with a list of rows returns a
\* table with one row per received row, in the received order and with the
\* row's other fields as received; the table is indexed by the rows' `t` when
\* the rows carry `t`, and has no index assigned when they do not.
C21_OneRowPerRow ==
    JsonAnswered =>
        /\ RowsWithT(call.reply.body)
             => /\ outcome.kind = "DataFrame" /\ outcome.df.indexed
                /\ Len(outcome.df.rows) = Len(call.reply.body.l)
                /\ \A k \in 1..Len(call.reply.body.l) :
                     /\ outcome.df.index[k]
                          = PdTimestamp(DictGet(call.reply.body.l[k].d, "t").i)
                     /\ outcome.df.rows[k] = DictWithout(call.reply.body.l[k].d, "t")
        /\ RowsWithoutT(call.reply.body)
             => /\ outcome.kind = "DataFrame" /\ ~outcome.df.indexed
                /\ Len(outcome.df.rows) = Len(call.reply.body.l)
                /\ \A k \in 1..Len(call.reply.body.l) :
                     outcome.df.rows[k] = call.reply.body.l[k].d

C21_Witness ==
    /\ JsonAnswered /\ call.method = "price"
    /\ RowsWithT(call.reply.body)
    /\ Len(call.reply.body.l) = 2
    /\ DictGet(call.reply.body.l[1].d, "t").i > DictGet(call.reply.body.l[2].d, "t").i
    /\ outcome.kind = "DataFrame"
    /\ outcome.df.index = <<PdTimestamp(2000), PdTimestamp(1000)>>

\* C22 (as stated): a get_data call with format "csv" whose GET is answered
\* successfully with a CSV body (a body that is no JSON) returns to the caller
\* without failing.
C22_Original ==
    (/\ call.method = "get_data" /\ Answered
     /\ call.format = CSV
     /\ call.reply.status = "ok" /\ ~call.reply.json)
        => ~Raised(outcome)

\* the tenths of a day a printed figure stands for
PrintedTenths(figure) == figure.days * 10 + figure.tenth

\* C23: the timerange-too-large error names the interval that was passed, the
\* maximum looked up for it, and the requested span in days (to the nearest
\* tenth of a day).
C23_ErrorNamesSpan ==
    (/\ call.method \in {"_validate_bulk_timerange"} \cup BulkMethods
     /\ pc = "raised" /\ TimerangeTooLarge(outcome))
        => /\ Len(outcome.args) = 3
           /\ outcome.args[1] = call.interval
           /\ InTable(call.interval)
           /\ outcome.args[2] = PyInt(constraints[call.interval.s])
           /\ outcome.args[3].tenth \in 0..9
           /\ PrintedTenths(outcome.args[3]) * SecondsPerDay - Span(call) * 10 <= 43200
           /\ Span(call) * 10 - PrintedTenths(outcome.args[3]) * SecondsPerDay <= 43200

C23_Witness ==
    /\ Validated /\ TimerangeTooLarge(outcome)
    /\ call.interval = PyStr(<<"1", "0", "m">>)
    /\ call.since = PyInt(0 - SecondsPerDay) /\ call.until = PyInt(Day(10) + 1)
    /\ outcome.args = <<call.interval, PyInt(10), OneDecimal(110)>>

\* the request the call transmits, and what it returns or raises for the
\* reply, when it is the only call on the client
AloneSent(c) ==
    Sent(Request(client.base_url, RequestedEndpoint(c), BuiltParams(c).val,
                 IF c.method = "_make_request" THEN c.kwargs ELSE <<>>),
         client.headers)

AloneOutcome(c) ==
    IF Raised(BuiltParams(c)) THEN BuiltParams(c)
    ELSE Result(c.method, c.format, _make_request_result(c.reply))

\* C24: whatever the other caller is doing, a caller's request in flight is
\* the request its call transmits when run alone, and a finished call's
\* outcome is the one it has when run alone on the same reply; a call that
\* raises before the transport has transmitted nothing.
C24_CallsIndependent ==
    \A t \in Threads :
        /\ threads[t].pc \in {"inflight", "done"} /\ threads[t].sent # <<>>
               => threads[t].sent = AloneSent(threads[t].call)
        /\ threads[t].pc = "done"
               => /\ threads[t].outcome = AloneOutcome(threads[t].call)
                  /\ (threads[t].sent = <<>>) = Raised(BuiltParams(threads[t].call))

C24_Witness ==
    /\ threads[1].pc = "done" /\ threads[2].pc = "done"
    /\ threads[1].call.method = "get_data" /\ threads[2].call.method = "get_bulk_data"
    /\ threads[1].call.since = PyInt(Day(1))
    /\ threads[1].outcome.kind = "DataFrame" /\ threads[2].outcome.kind = "DataFrame"
    /\ threads[1].sent.params # threads[2].sent.params

\* C25 as stated: a call leaves the mapping the caller passed as parameters
\* as it was (the client's api_key, base_url and headers are left unchanged
\* by every action).
C25_Original ==
    (call.method = "_make_request" /\ pc \in {"inflight", "returned", "raised"})
        => call.caller_params = call.params

\* a string without its trailing slashes, and without its leading slashes
TrailingStripped(x) ==
    SubSeq(x, 1, CHOOSE n \in 0..Len(x) :
                     /\ \A k \in (n + 1)..Len(x) : x[k] = "/"
                     /\ n = 0 \/ x[n] # "/")

LeadingStripped(x) ==
    SubSeq(x, (CHOOSE n \in 1..(Len(x) + 1) :
                     /\ \A k \in 1..(n - 1) : x[k] = "/"
                     /\ n = Len(x) + 1 \/ x[n] # "/"), Len(x))

PriceMetric ==
    <<"m", "e", "t", "r", "i", "c", "s", "/", "m", "a", "r", "k", "e", "t", "/", "p", "r", "i", "c", "e", "_", "u", "s", "d", "_", "c", "l", "o", "s", "e">>

\* the endpoint path the call is to request
PathOf(c) ==
    CASE c.method = "price" -> PriceMetric
      [] c.method = "price_bulk" -> PriceMetric \o <<"/", "b", "u", "l", "k">>
      [] c.method = "get_bulk_data" -> TrailingStripped(c.endpoint) \o <<"/", "b", "u", "l", "k">>
      [] OTHER -> c.endpoint

\* C26: the URL requested is the base URL the client was constructed with,
\* without its trailing slashes, one slash, and the endpoint path without its
\* leading slashes; the path is base_path/metric for a category method and
\* the path without trailing slashes followed by /bulk for a bulk call.
C26_UrlJoined ==
    \A t \in Threads :
        threads[t].sent # <<>>
            => threads[t].sent.url =
                   TrailingStripped(call.base_url) \o <<"/">>
                       \o LeadingStripped(PathOf(threads[t].call))

C26_Witness ==
    /\ call.base_url = default_base_url \o <<"/", "/">>
    /\ threads[1].call.method = "get_bulk_data"
    /\ threads[1].call.endpoint = <<"/", "m", "e", "t", "r", "i", "c", "s", "/", "m", "a", "r", "k", "e", "t", "/", "m", "v", "r", "v", "/">>
    /\ threads[1].sent # <<>>
    /\ threads[1].sent.url = default_base_url \o <<"/", "m", "e", "t", "r", "i", "c", "s", "/", "m", "a", "r", "k", "e", "t", "/", "m", "v", "r", "v", "/", "b", "u", "l", "k">>
    /\ threads[2].call.method = "price" /\ threads[2].sent # <<>>

\* a bulk call, a request call, with its one GET handed to the transport
BulkInFlight == call.method \in BulkMethods /\ pc = "inflight" /\ Len(gets) = 1

RequestInFlight == call.method \in RequestMethods /\ pc = "inflight" /\ Len(gets) = 1

\* the request carries one integer s, one integer u and one i of the cap table
CarriesSpan(request) ==
    /\ Len(ValuesUnder(request.params, "s")) = 1
    /\ Len(ValuesUnder(request.params, "u")) = 1
    /\ Len(ValuesUnder(request.params, "i")) = 1
    /\ ValuesUnder(request.params, "s")[1].t = "int"
    /\ ValuesUnder(request.params, "u")[1].t = "int"
    /\ InTable(ValuesUnder(request.params, "i")[1])

\* C27 (as stated): a bulk GET that carries s, u and an i of the cap table
\* has u - s at most cap(i) * 86400 seconds.
C27_Original ==
    (BulkInFlight /\ CarriesSpan(gets[1]))
        => ValuesUnder(gets[1].params, "u")[1].i - ValuesUnder(gets[1].params, "s")[1].i
               <= constraints[ValuesUnder(gets[1].params, "i")[1].s] * SecondsPerDay

\* the pairs a request is to carry for a time argument: none when it is
\* absent, one with its normalized value otherwise
TimePairs(x, tz) ==
    IF x = PyNone THEN <<>> ELSE <<_format_timestamp(x, tz).val>>

\* C28 (as stated): the request of a get_data or get_bulk_data call carries
\* exactly one s (u) pair with the normalized since (until) when the
\* argument is given, the integer 0 included, and none when it is absent.
C28_Original ==
    (/\ RequestInFlight
     /\ call.since = PyNone \/ NormOk(call.since, call.tz)
     /\ call.until = PyNone \/ NormOk(call.until, call.tz))
        => /\ ValuesUnder(gets[1].params, "s") = TimePairs(call.since, call.tz)
           /\ ValuesUnder(gets[1].params, "u") = TimePairs(call.until, call.tz)

\* C29 (as stated): the request of a bulk call carries exactly one f pair,
\* json, and a pairs exactly for a non-empty asset list, one per asset in
\* list order.
C29_Original ==
    BulkInFlight
        => /\ ValuesUnder(gets[1].params, "f") = <<JSON>>
           /\ ValuesUnder(gets[1].params, "a") =
                  IF call.assets.t = "list" THEN call.assets.l ELSE <<>>

=============================================================================
